---- MODULE Spec2Model ----
(***************************************************************************)
(* Model of the retry / recovery orchestration of GenAI-PoD:               *)
(*   - generate_image_selenium_gpt and its stages (generate_gpt.py),       *)
(*   - the chat-stage error check and the usage-limit time gate,           *)
(*   - the upload dispatchers (utils.py, redbubble.py, spreadshirt.py),    *)
(*   - upscale / start_tor / upscale_bigjpg (bigjpg_upscaler.py),          *)
(*   - write_metadata, the generategpt command, and the functions          *)
(*     _scrape_vexels_image, _get_text_from_element, _process_image.       *)
(* One behaviour is one entry point being run (variable cmd); the upload   *)
(* entry point may be run several times over the same store.               *)
(***************************************************************************)
EXTENDS Integers, Sequences, FiniteSets, TLC

\* ------------------------------------------------------------------ bounds
\* most "WebDriver disconnected" restarts modelled inside one scrape
MaxDisconnects == 1

\* dispatcher runs (processes) started over one store
MaxRuns == 1
\* job folders put into the store
MaxAdded == 2
\* write_metadata calls on one job folder
MaxWrites == 2
\* calls of the generator made by the loop of the generategpt command
MaxInvocations == 2
\* jobs that get as far as _process_image into one output directory
MaxJobs == 2

\* ------------------------------------------------------- program constants
max_retries == 5
\* _gpt_type_text calls of _start_generating (describe, generate, title,
\* description, tags, DONE)
NumPrompts == 6
\* bg_remove(image_path, retries=2)
bg_retries == 2
\* parameters upscale() requires / arguments _process_image passes
UpscaleParams == 3
UpscaleArgsPassed == 2

VARIABLES
    cmd,             \* the entry point this behaviour runs
    platform,        \* what platform.system() / platform.machine() report
    exitCode,        \* -1 while the process runs, else its exit status
    \* ---- generate_image_selenium_gpt
    pc,              \* position in the retry loop / stage of the cycle
    retries,         \* local counter of generate_image_selenium_gpt
    cycles,          \* cycles started by this invocation (line 800 log)
    active_drivers,  \* module-level registry, a Python list
    launched,        \* drivers launched so far; ids are 1..launched
    quitted,         \* drivers on which quit() was called at least once
    driver,          \* local "driver" of generate_image_selenium_gpt (0: unbound)
    chatgpt_driver,  \* local "chatgpt_driver" (0: unbound)
    failedStage,     \* stage in which the cycle now handled (or last handled) failed
    prompt,          \* prompts of _start_generating completed
    bgAttempt,       \* attempt index of bg_remove
    errIn,           \* what the last _handle_errors call saw ("none": not called)
    errOut,          \* how the last _handle_errors call ended
    login,           \* how the login wait of _start_chat_gpt ended (this cycle)
    artifacts,       \* what the current cycle has put on disk and not removed
    leftovers,       \* what aborted cycles have left on disk
    \* ---- the WorkItem store and the upload dispatchers
    mk,              \* marketplace of the current (or last) dispatcher run
    upc,             \* idle | iterating | finished | exited | aborted
    top,             \* names of the directories directly in the store
    files,           \* files of each pending job folder
    inside,          \* names of the folders inside each archive folder
    subdirs,         \* folders of this pass not processed yet
    visits,          \* process_subdir calls of this pass, per folder
    last,            \* the last process_subdir call and how it ended
    runs,            \* dispatcher runs started
    added,           \* job folders put into the store
    \* ---- _parse_time / _wait_until_time
    now,             \* datetime.now(berlin_tz) read by _parse_time
    time_str,        \* the clock string handed to _parse_time
    target_time,     \* the datetime _parse_time returned (NoTime: not yet)
    tpc,             \* call | parsed | raised | aborted
    waited,          \* seconds-loop length of _wait_until_time, in minutes
    \* ---- upscale / start_tor
    upsPc,           \* start_tor | wait_for_tor | bigjpg | returned | exited | raised
    tor_binary_path, \* whether a Tor binary path was passed
    whichTor,        \* whether which("tor") finds a binary
    tor_process,     \* whether a Tor process started by upscale is running
    torStarts,       \* Tor processes started
    upsResult,       \* what upscale returned
    \* ---- verify (verify_sites.py)
    vpc,             \* idle | start | opened | returned | raised
    \* ---- write_metadata / the reads of process_subdir
    meta,            \* the lines of title.txt, tags.txt, description.txt
    writes,          \* write_metadata calls made on the folder
    lastWrite,       \* the texts the last write_metadata call was given
    readOut,         \* the texts process_subdir read (NoRead: not yet)
    \* ---- the generategpt command (cli.py)
    cliPc,           \* idle | calling | ended
    invocations,     \* calls of generate_image_selenium_gpt made by the loop
    entered,         \* calls whose arguments were bound, so that the body ran
    cliOut,          \* how the last call ended
    \* ---- _process_image after the two upscale passes
    passes,          \* the paths the first and the second pass returned
    disk,            \* the image files in the job folder
    removed,         \* the paths os.remove has deleted, in order
    piOut,           \* none | return | the exception class that left the function
    \* ---- _scrape_vexels_image, the loop over the assets
    examined,        \* assets of the page the loop has looked at
    scrOut,          \* running | image | None
    picked,          \* the asset whose image was returned (NoAsset: none)
    \* ---- _get_text_from_element
    gtRetries,       \* the argument retries of the call
    gtAttempts,      \* turns of the for loop made
    gtOut,           \* running | return | the exception class that left the function
    gtText,          \* the string returned
    \* ---- upscale_bigjpg
    bjPc,            \* idle | setup | attempt | returned | raised
    bjRetry,         \* turns of the for loop started
    bjResult,        \* none | image_path | upscaled: what was returned
    bjEvent,         \* what the last turn met in the browser
    \* ---- the title of a job and its folder (_start_generating, _process_image)
    jobTitles,       \* the titles handed to _process_image, one per job
    jobFolders       \* the output_directory of each of these jobs

genVars == <<pc, retries, cycles, active_drivers, launched, quitted, driver,
             chatgpt_driver, failedStage, prompt, bgAttempt, errIn, errOut,
             login, artifacts, leftovers>>

upVars == <<mk, upc, top, files, inside, subdirs, visits, last, runs, added>>

timeVars == <<now, time_str, target_time, tpc, waited>>

torVars == <<upsPc, tor_binary_path, whichTor, tor_process, torStarts, upsResult>>

metaVars == <<meta, writes, lastWrite, readOut>>

cliVars == <<cliPc, invocations, entered, cliOut>>

piVars == <<passes, disk, removed, piOut>>

scrVars == <<examined, scrOut, picked>>

gtVars == <<gtRetries, gtAttempts, gtOut, gtText>>

bjVars == <<bjPc, bjRetry, bjResult, bjEvent>>

jobVars == <<jobTitles, jobFolders>>

vars == <<cmd, platform, exitCode, genVars, upVars, timeVars, torVars, vpc, metaVars, cliVars,
          piVars,
          scrVars,
          gtVars,
          bjVars,
          jobVars>>

\* what the actions of one entry point leave alone
notGen == <<cmd, platform, vpc, upVars, timeVars, torVars, metaVars, cliVars, piVars,
          scrVars,
          gtVars,
          bjVars,
          jobVars>>
notUp == <<cmd, platform, vpc, pc, retries, cycles, active_drivers, driver, chatgpt_driver, failedStage,
           prompt, bgAttempt, errIn, errOut, login, artifacts, leftovers, timeVars, torVars,
           metaVars, cliVars, piVars,
          scrVars,
          gtVars,
          bjVars,
          jobVars>>
notTime == <<cmd, platform, vpc, exitCode, genVars, upVars, torVars, metaVars, cliVars,
             piVars,
          scrVars,
          gtVars,
          bjVars,
          jobVars>>
notTor == <<cmd, platform, vpc, genVars, upVars, timeVars, metaVars, cliVars, piVars,
          scrVars,
          gtVars,
          bjVars,
          jobVars>>

notVerify == <<cmd, platform, pc, retries, cycles, active_drivers, driver, chatgpt_driver,
               failedStage, prompt, bgAttempt, errIn, errOut, login, artifacts, leftovers,
               upVars, timeVars, torVars,
               metaVars, cliVars, piVars,
          scrVars,
          gtVars,
          bjVars,
          jobVars>>
notMeta == <<cmd, platform, vpc, exitCode, genVars, upVars, timeVars, torVars, cliVars, piVars,
          scrVars,
          gtVars,
          bjVars,
          jobVars>>
notCli == <<cmd, platform, vpc, genVars, upVars, timeVars, torVars, metaVars, piVars,
          scrVars,
          gtVars,
          bjVars,
          jobVars>>
notPi == <<cmd, platform, vpc, exitCode, genVars, upVars, timeVars, torVars, metaVars, cliVars,
          scrVars,
          gtVars,
          bjVars,
          jobVars>>
notScr == <<cmd, platform, exitCode, genVars, upVars, timeVars, torVars, vpc, metaVars, cliVars,
          piVars,
          gtVars,
          bjVars,
          jobVars>>
notGt == <<cmd, platform, exitCode, genVars, upVars, timeVars, torVars, vpc, metaVars, cliVars,
          piVars,
          scrVars,
          bjVars,
          jobVars>>
notBj == <<cmd, platform, exitCode, pc, retries, cycles, active_drivers, driver,
          chatgpt_driver, failedStage, prompt, bgAttempt, errIn, errOut, login, artifacts,
          leftovers, upVars, timeVars, torVars, vpc, metaVars, cliVars,
          piVars,
          scrVars,
          gtVars,
          jobVars>>
notJob == <<cmd, platform, exitCode, genVars, upVars, timeVars, torVars, vpc, metaVars, cliVars,
          piVars,
          scrVars,
          gtVars,
          bjVars>>

\* ------------------------------------------------------------------ helpers
Range(s) == {s[i] : i \in 1..Len(s)}

\* list.remove(x): drops the first occurrence
RemoveFirst(s, x) ==
    LET i == CHOOSE k \in 1..Len(s) : s[k] = x /\ \A j \in 1..(k-1) : s[j] # x
    IN  SubSeq(s, 1, i-1) \o SubSeq(s, i+1, Len(s))

Live == (1..launched) \ quitted

\* Python's exception classes used by the program, and "except <clause>"
ExcClasses == {"AbortScriptError", "FileNotFoundError", "shutil.Error", "TypeError",
               "ValueError", "WebDriverException", "RequestException", "SystemExit",
               "RuntimeError", "TimeoutException"}

\* (an "except Exception" that would take SystemExit as well)
CatchesSystemExitToo(exc, clause) ==
    \/ exc = clause
    \/ clause = "Exception"

Catches(exc, clause) ==
    \/ exc = clause
    \/ clause = "Exception" /\ exc # "SystemExit"

\* ------------------------------------------------ the chat-stage error check
\* A clock string as the regex  after\s+(\d{1,2}:\d{2}\s*(?:AM|PM))  captures it:
\* h: the one or two hour digits, m: the two minute digits, sp: the blanks
\* before the meridiem, pm: the meridiem.
TimeStr(h, m, sp, pm) == [h |-> h, m |-> m, sp |-> sp, pm |-> pm]

\* datetime.strptime(time_str, "%I:%M %p") accepts the string: %I is 1..12,
\* %M is 0..59, and the blank of the format needs at least one blank.
StrpOk(t) == t.h \in 1..12 /\ t.m \in 0..59 /\ t.sp >= 1

\* the hour strptime returns for %I with %p
StrpHour(t) == (t.h % 12) + (IF t.pm THEN 12 ELSE 0)

\* What one _handle_errors call finds in the page:
\*   kind     the error span: absent, a text without a usage-cap pattern, or a
\*            usage-cap text without "after", with "after" but no clock match,
\*            or with a clock match (tstr);
\*   divLater whether div.text-sm.text-token-text-error is still in the page
\*            when _handle_network_error looks for it after the wait.
ObsKinds == {"no_span", "generic", "cap_noafter", "cap_after_nomatch", "cap_after_time"}

GenTimeStrs == {TimeStr(10, 30, 1, TRUE), TimeStr(10, 30, 0, TRUE), TimeStr(13, 45, 1, TRUE)}

GenObservations ==
    [kind : ObsKinds \ {"cap_after_time"}, tstr : {TimeStr(10, 30, 1, TRUE)}, divLater : {TRUE}]
    \cup [kind : {"cap_after_time"}, tstr : GenTimeStrs, divLater : BOOLEAN]

\* (a network-error check that only logs)
HandleNetworkErrorOnlyLogs(divPresent) == "return"

\* _handle_network_error: raises when the error div is in the page
_handle_network_error(divPresent) ==
    IF divPresent THEN "AbortScriptError" ELSE "return"

\* _wait_until_time: sleeps, then raises unconditionally
_wait_until_time == "AbortScriptError"

\* _handle_usage_limit, from the span being found on. What _parse_time or
\* _wait_until_time raises inside the try of line 476 meets the
\* "except Exception" of line 487, which calls _handle_network_error.
_handle_usage_limit(obs) ==
    IF obs.kind = "cap_after_time"
    THEN LET raised == IF StrpOk(obs.tstr) THEN _wait_until_time ELSE "ValueError"
             \* a wait happened only when the time was parsed
             div == IF StrpOk(obs.tstr) THEN obs.divLater ELSE TRUE
         IN  IF Catches(raised, "Exception")
             THEN _handle_network_error(div)
             ELSE raised
    ELSE _handle_network_error(TRUE)

\* the calls _handle_usage_limit makes, in order (lines 474-492)
UsageLimitCalls(obs) ==
    IF obs.kind = "cap_after_time"
    THEN IF StrpOk(obs.tstr)
         THEN <<"_parse_time", "_wait_until_time", "_handle_network_error">>
         ELSE <<"_parse_time", "_handle_network_error">>
    ELSE <<"_handle_network_error">>

\* _handle_errors: "return" or the exception class that leaves it
_handle_errors(obs) ==
    CASE obs.kind = "no_span" -> "return"
      [] obs.kind = "generic" -> _handle_network_error(TRUE)
      [] OTHER                -> _handle_usage_limit(obs)

\* driver.quit(): the driver joins the drivers that were quit
\* (a quit that is skipped)
DriverQuitSkipped(q, d) == q

driver_quit(q, d) == q \cup {d}

\* ------------------------------------------------------ the driver registry
\* AbortScriptError.close_all_drivers: quit every registered driver, then
\* rebind the module-level list to a new empty list.
CloseAllNoRebind(reg, q) == [active_drivers |-> reg, quitted |-> q \cup Range(reg)]

\* (the registry emptied without a quit)
CloseAllNoQuit(reg, q) == [active_drivers |-> << >>, quitted |-> q]

close_all_drivers(reg, q) == [active_drivers |-> << >>, quitted |-> q \cup Range(reg)]

\* The platforms: one get_chrome_path knows with a chromedriver that can be
\* launched, an operating system it does not know, and aarch64 without the
\* chromedriver _launch_chrome looks for.
Platforms == {"supported", "unsupported_os", "aarch64_no_chromedriver"}

\* get_chrome_path(), called by _build_chrome_options (line 191)
get_chrome_path(plat) == IF plat = "unsupported_os" THEN "RuntimeError" ELSE "path"

\* _launch_chrome: the RuntimeError of line 232
_launch_chrome(plat) == IF plat = "aarch64_no_chromedriver" THEN "RuntimeError" ELSE "Chrome"

\* what the platform makes the try block of start_chrome raise
StartChromeRaises(plat) ==
    IF get_chrome_path(plat) = "RuntimeError" \/ _launch_chrome(plat) = "RuntimeError"
    THEN "RuntimeError" ELSE "none"

\* start_chrome(profile, output_directory): how a call can end. Whatever the
\* try block raises is an Exception to line 99, which raises AbortScriptError. A failure
\* after the launch (download configuration, cookie loading) quits the
\* driver before AbortScriptError is raised.
StartChromeOutcomes(profile, hasOutDir) ==
    IF StartChromeRaises(platform) # "none"
    THEN {"fail_before_launch"}
    ELSE {"ok", "fail_before_launch"}
         \cup (IF hasOutDir \/ profile # "Default" THEN {"fail_after_launch"} ELSE {})

\* (a retry loop with the "except AbortScriptError" clause only)
LoopHandlerAbortOnly(exc) ==
    IF Catches(exc, "AbortScriptError") THEN "abort_handler" ELSE "propagate"

\* the except clause of the retry loop that takes an exception class
LoopHandler(exc) ==
    IF Catches(exc, "AbortScriptError") THEN "abort_handler"
    ELSE IF Catches(exc, "Exception") THEN "exc_handler"
    ELSE "propagate"

\* ----------------------------------------------- generate_image_selenium_gpt
\* (a stage that fails is run again in place)
FailResume(stage, exc) ==
    /\ pc' = pc
    /\ failedStage' = stage

\* An exception leaves the stage: control goes to the except clause of the
\* retry loop that takes it (lines 819, 830).
Fail(stage, exc) ==
    /\ pc' = LoopHandler(exc)
    /\ failedStage' = stage

\* while retries < max_retries: ... start_chrome("Default", None); append
CycleStart ==
    /\ cmd = "generate" /\ pc = "loop" /\ retries < max_retries
    /\ cycles' = cycles + 1
    /\ errIn' = "none" /\ errOut' = "none" /\ prompt' = 0 /\ bgAttempt' = 0 /\ login' = "none"
    /\ \E o \in StartChromeOutcomes("Default", FALSE) :
         IF o = "ok"
         THEN /\ launched' = launched + 1
              /\ driver' = launched + 1
              /\ active_drivers' = Append(active_drivers, launched + 1)
              /\ pc' = "scrape"
              /\ UNCHANGED failedStage
         ELSE /\ Fail("start", "AbortScriptError")
              /\ UNCHANGED <<launched, driver, active_drivers>>
    /\ UNCHANGED notGen /\ UNCHANGED <<artifacts, leftovers>> /\ UNCHANGED <<exitCode, retries, quitted, chatgpt_driver>>

\* the else branch of the while loop
LoopExhausted ==
    /\ cmd = "generate" /\ pc = "loop" /\ retries >= max_retries
    /\ pc' = "exhausted"
    /\ exitCode' = 0
    /\ UNCHANGED notGen /\ UNCHANGED login /\ UNCHANGED <<artifacts, leftovers>> /\ UNCHANGED <<retries, cycles, active_drivers, launched, quitted, driver,
                   chatgpt_driver, failedStage, prompt, bgAttempt, errIn, errOut>>

\* _scrape_vexels_image(driver) and lines 803-808.
\*   getOk       driver.get succeeded (the driver is appended a second time)
\*   k           restarts after "disconnected": quit, uc.Chrome(), append
\*   restartFail a further restart whose uc.Chrome() raised
\*   found       an image was downloaded
\* The finally clause quits the driver the local name is bound to.
ScrapeVexels ==
    /\ cmd = "generate" /\ pc = "scrape"
    /\ \E getOk \in BOOLEAN, k \in 0..MaxDisconnects, restartFail \in BOOLEAN, found \in BOOLEAN :
         /\ ~getOk => (k = 0 /\ ~restartFail /\ ~found)
         /\ restartFail => ~found
         /\ LET new == [i \in 1..k |-> launched + i]
                reg == active_drivers \o (IF getOk THEN <<driver>> ELSE << >>) \o new
            IN  /\ launched' = launched + k
                /\ quitted' = driver_quit(quitted, driver) \cup Range(new)
                /\ IF found
                   THEN /\ active_drivers' = RemoveFirst(reg, driver)
                        /\ artifacts' = {"tmp_image"}
                        /\ pc' = "chat_start"
                        /\ UNCHANGED failedStage
                   ELSE /\ active_drivers' = reg
                        /\ Fail("scrape", "AbortScriptError")
                        /\ UNCHANGED artifacts
    /\ UNCHANGED notGen /\ UNCHANGED login /\ UNCHANGED leftovers /\ UNCHANGED <<exitCode, retries, cycles, driver, chatgpt_driver, prompt,
                   bgAttempt, errIn, errOut>>

\* _wait_for_element (lines 102-117): WebDriverWait(...).until(...) inside a
\* try whose "except TimeoutException" logs; found: the element appeared
\* within the timeout
_wait_for_element(found) ==
    IF found \/ Catches("TimeoutException", "TimeoutException") THEN "return"
    ELSE "TimeoutException"

\* the login step of _start_chat_gpt (lines 74-78): no login page was shown
\* or the chat interface appeared within 300 s ("in"), or the wait ran out
LoginWaits == {"in", "timeout"}

\* _start_chat_gpt() and line 812. getOk: driver.get succeeded; lg: the login
\* step. When the login wait runs out, _wait_for_element returns all the
\* same, "Logged in!" is logged and the driver is returned.
StartChatGpt ==
    /\ cmd = "generate" /\ pc = "chat_start"
    /\ \E o \in StartChromeOutcomes("ChatGPT", FALSE), getOk \in BOOLEAN, lg \in LoginWaits :
         CASE o = "fail_before_launch" ->
                /\ Fail("chat_start", "AbortScriptError")
                /\ UNCHANGED <<launched, quitted, active_drivers, chatgpt_driver, login>>
           [] o = "fail_after_launch" ->
                /\ launched' = launched + 1
                /\ quitted' = quitted \cup {launched + 1}
                /\ Fail("chat_start", "AbortScriptError")
                /\ UNCHANGED <<active_drivers, chatgpt_driver, login>>
           [] o = "ok" ->
                /\ launched' = launched + 1
                /\ UNCHANGED quitted
                /\ IF getOk /\ _wait_for_element(lg # "timeout") = "return"
                   THEN /\ active_drivers' = active_drivers \o <<launched + 1, launched + 1>>
                        /\ chatgpt_driver' = launched + 1
                        /\ login' = lg
                        /\ pc' = "generate"
                        /\ UNCHANGED failedStage
                   ELSE /\ active_drivers' = Append(active_drivers, launched + 1)
                        /\ Fail("chat_start", IF getOk THEN _wait_for_element(lg # "timeout")
                                                       ELSE "WebDriverException")
                        /\ UNCHANGED <<chatgpt_driver, login>>
    /\ UNCHANGED notGen /\ UNCHANGED <<artifacts, leftovers>> /\ UNCHANGED <<exitCode, retries, cycles, driver, prompt, bgAttempt, errIn, errOut>>

\* One prompt of _start_generating: type, send, _handle_errors, extraction.
\*   ui  "abort": AbortScriptError before the error check; "exception": a raw
\*       Selenium exception; "abort_after": the extraction after the error
\*       check aborts; "ok"
\* After the last prompt the chat driver is quit (line 772).
ChatStep ==
    /\ cmd = "generate" /\ pc = "generate" /\ prompt < NumPrompts
    /\ \E ui \in {"ok", "abort", "exception", "abort_after"}, obs \in GenObservations :
         CASE ui = "abort" ->
                /\ Fail("generate", "AbortScriptError")
                /\ UNCHANGED <<errIn, errOut, prompt, quitted>>
           [] ui = "exception" ->
                /\ Fail("generate", "WebDriverException")
                /\ UNCHANGED <<errIn, errOut, prompt, quitted>>
           [] OTHER ->
                /\ errIn' = obs
                /\ errOut' = _handle_errors(obs)
                /\ IF _handle_errors(obs) # "return"
                   THEN /\ Fail("generate", _handle_errors(obs))
                        /\ UNCHANGED <<prompt, quitted>>
                   ELSE IF ui = "abort_after"
                   THEN /\ Fail("generate", "AbortScriptError")
                        /\ UNCHANGED <<prompt, quitted>>
                   ELSE /\ prompt' = prompt + 1
                        /\ UNCHANGED failedStage
                        /\ IF prompt + 1 = NumPrompts
                           THEN /\ quitted' = driver_quit(quitted, chatgpt_driver)
                                /\ pc' = "post_process"
                           ELSE /\ UNCHANGED <<quitted, pc>>
    /\ UNCHANGED notGen /\ UNCHANGED login /\ UNCHANGED <<artifacts, leftovers>> /\ UNCHANGED <<exitCode, retries, cycles, active_drivers, launched, driver,
                   chatgpt_driver, bgAttempt>>

\* _process_image, lines 307-318: download the generated image, create the
\* job folder, save the raw image
ProcessImageSave ==
    /\ cmd = "generate" /\ pc = "post_process"
    /\ \E ok \in BOOLEAN :
         IF ok THEN /\ pc' = "bg_remove" /\ UNCHANGED failedStage
                    /\ artifacts' = artifacts \cup {"job_folder"}
         ELSE Fail("post_process", "RequestException") /\ UNCHANGED artifacts
    /\ UNCHANGED notGen /\ UNCHANGED login /\ UNCHANGED leftovers /\ UNCHANGED <<exitCode, retries, cycles, active_drivers, launched, quitted,
                   driver, chatgpt_driver, prompt, bgAttempt, errIn, errOut>>

\* bg_remove: one attempt's start_chrome("capsolver", input_dir). The driver
\* is not entered in active_drivers. An attempt that fails is retried until
\* bg_retries attempts were made; then bg_remove returns None.
BgRemoveLaunch ==
    /\ cmd = "generate" /\ pc = "bg_remove"
    /\ \E o \in StartChromeOutcomes("capsolver", TRUE) :
         CASE o = "ok" ->
                /\ launched' = launched + 1
                /\ pc' = "bg_running"
                /\ UNCHANGED <<quitted, bgAttempt>>
           [] o = "fail_after_launch" ->
                /\ launched' = launched + 1
                /\ quitted' = quitted \cup {launched + 1}
                /\ bgAttempt' = bgAttempt + 1
                /\ pc' = IF bgAttempt + 1 = bg_retries THEN "upscale_call" ELSE "bg_remove"
           [] o = "fail_before_launch" ->
                /\ bgAttempt' = bgAttempt + 1
                /\ pc' = IF bgAttempt + 1 = bg_retries THEN "upscale_call" ELSE "bg_remove"
                /\ UNCHANGED <<launched, quitted>>
    /\ UNCHANGED notGen /\ UNCHANGED login /\ UNCHANGED <<artifacts, leftovers>> /\ UNCHANGED <<exitCode, retries, cycles, active_drivers, driver, chatgpt_driver,
                   failedStage, prompt, errIn, errOut>>

\* run_bg_remove from the launched driver on; its finally clause quits it
BgRemoveFinish ==
    /\ cmd = "generate" /\ pc = "bg_running"
    /\ quitted' = driver_quit(quitted, launched)
    /\ \E ok \in BOOLEAN :
         IF ok THEN pc' = "upscale_call" /\ UNCHANGED bgAttempt
         ELSE /\ bgAttempt' = bgAttempt + 1
              /\ pc' = IF bgAttempt + 1 = bg_retries THEN "upscale_call" ELSE "bg_remove"
    /\ UNCHANGED notGen /\ UNCHANGED login /\ UNCHANGED <<artifacts, leftovers>> /\ UNCHANGED <<exitCode, retries, cycles, active_drivers, launched, driver,
                   chatgpt_driver, failedStage, prompt, errIn, errOut>>

\* artifacts: the NamedTemporaryFile(delete=False) of the scraped image
\* ("tmp_image", line 652) and the job folder with the raw image in it
\* ("job_folder", lines 315-318). The temporary file is unlinked at line 782
\* only, after write_metadata; the except clauses of the retry loop delete
\* nothing, so what an aborted cycle created stays on disk (leftovers).
\* _process_image from line 324 on, write_metadata, lines 814-817. The call
\* upscale(str(bg_removed_image_path), Path(output_directory)) passes
\* UpscaleArgsPassed arguments to a function of UpscaleParams required
\* parameters: Python raises TypeError before the body of upscale runs.
UpscaleAndFinish ==
    /\ cmd = "generate" /\ pc = "upscale_call"
    /\ IF UpscaleArgsPassed # UpscaleParams
       THEN /\ Fail("post_process", "TypeError")
            /\ UNCHANGED <<active_drivers, exitCode, artifacts>>
       ELSE /\ active_drivers' = RemoveFirst(active_drivers, chatgpt_driver)
            /\ pc' = "done"
            /\ exitCode' = 0
            /\ artifacts' = {}
            /\ UNCHANGED failedStage
    /\ UNCHANGED notGen /\ UNCHANGED login /\ UNCHANGED leftovers /\ UNCHANGED <<retries, cycles, launched, quitted, driver, chatgpt_driver,
                   prompt, bgAttempt, errIn, errOut>>

\* (the handler without "retries += 1")
AbortHandlerNoCount ==
    /\ cmd = "generate" /\ pc = "abort_handler"
    /\ active_drivers' = close_all_drivers(active_drivers, quitted).active_drivers
    /\ quitted' = close_all_drivers(active_drivers, quitted).quitted
    /\ pc' = "loop"
    /\ leftovers' = leftovers \cup artifacts /\ artifacts' = {}
    /\ UNCHANGED notGen /\ UNCHANGED login /\ UNCHANGED <<exitCode, retries, cycles, launched, driver, chatgpt_driver,
                   failedStage, prompt, bgAttempt, errIn, errOut>>

\* except AbortScriptError (lines 819-828)
AbortHandler ==
    /\ cmd = "generate" /\ pc = "abort_handler"
    /\ active_drivers' = close_all_drivers(active_drivers, quitted).active_drivers
    /\ quitted' = close_all_drivers(active_drivers, quitted).quitted
    /\ retries' = retries + 1
    /\ pc' = "loop"
    /\ leftovers' = leftovers \cup artifacts /\ artifacts' = {}
    /\ UNCHANGED notGen /\ UNCHANGED login /\ UNCHANGED <<exitCode, cycles, launched, driver, chatgpt_driver, failedStage,
                   prompt, bgAttempt, errIn, errOut>>

\* except Exception (lines 830-841): quit each registered driver, clear()
ExceptionHandler ==
    /\ cmd = "generate" /\ pc = "exc_handler"
    /\ quitted' = quitted \cup Range(active_drivers)
    /\ active_drivers' = << >>
    /\ retries' = retries + 1
    /\ pc' = "loop"
    /\ leftovers' = leftovers \cup artifacts /\ artifacts' = {}
    /\ UNCHANGED notGen /\ UNCHANGED login /\ UNCHANGED <<exitCode, cycles, launched, driver, chatgpt_driver, failedStage,
                   prompt, bgAttempt, errIn, errOut>>

GenNext ==
    \/ CycleStart \/ LoopExhausted \/ ScrapeVexels \/ StartChatGpt \/ ChatStep
    \/ ProcessImageSave \/ BgRemoveLaunch \/ BgRemoveFinish \/ UpscaleAndFinish
    \/ AbortHandler \/ ExceptionHandler

GenInit ==
    /\ pc = "loop" /\ retries = 0 /\ cycles = 0
    /\ active_drivers = << >> /\ launched = 0 /\ quitted = {}
    /\ driver = 0 /\ chatgpt_driver = 0 /\ failedStage = "none"
    /\ prompt = 0 /\ bgAttempt = 0 /\ errIn = "none" /\ errOut = "none"
    /\ artifacts = {} /\ leftovers = {} /\ login = "none"

\* ------------------------------------------- the store and the dispatchers
JobNames == {"a", "b"}
Markets == {"spreadshirt", "redbubble"}
UsedOf(m) == IF m = "spreadshirt" THEN "used_spreadshirt" ELSE "used_redbubble"
ErrorOf(m) == IF m = "spreadshirt" THEN "error_spreadshirt" ELSE "error_redbubble"
ArchNames == {UsedOf(m) : m \in Markets} \cup {ErrorOf(m) : m \in Markets}
DirNames == JobNames \cup ArchNames

FileKinds == {"image", "title.txt", "description.txt", "tags.txt"}
\* "second_image": a further .png/.jpg/.jpeg file next to the image;
\* "<file>:empty": that text file exists and holds nothing but blanks
EmptyMarks == {"title.txt:empty", "description.txt:empty", "tags.txt:empty"}

\* the contents a job folder is put into the store with: complete; lacking
\* one of the four files; as _process_image leaves it after mkdir (line 315)
\* and after saving the raw image (line 318); complete with a second image;
\* complete with one empty text file
FileSets ==
    {FileKinds} \cup {FileKinds \ {f} : f \in FileKinds} \cup {{}, {"image"}}
    \cup {FileKinds \cup {"second_image"}} \cup {FileKinds \cup {e} : e \in EmptyMarks}

\* Folder "a" is put into the store with any of these contents; the second
\* folder "b" complete or with the raw image only.
ContentsOf(name) == IF name = "a" THEN FileSets ELSE {FileKinds, {"image"}}

\* the files of a directory of the store (an archive folder holds folders only)
FilesOf(name) == IF name \in JobNames THEN files[name] ELSE {}

\* exclude_folders of the run: upload_spreadshirt passes its list (line 56),
\* redbubble.iterate_and_upload builds [folder, error_folder] (line 565)
ExcludeFolders(m) ==
    IF m = "spreadshirt"
    THEN {"used_redbubble", "error_spreadshirt", "used_spreadshirt"}
    ELSE {UsedOf(m), ErrorOf(m)}

\* spreadshirt._upload_with_selenium: what happens in the browser, and what
\* the callable does with it. "limit" is the daily-limit message (sys.exit(1)
\* in _upload_image); every Exception is turned into False (line 627).
\* "publish_failed": the flow ran up to the publish step and the click on
\* the save / publish button failed or timed out.
SpreadshirtPageOutcomes == {"published", "publish_failed", "upload_failed", "error", "limit"}

\* spreadshirt._wait_and_click (lines 83-88) and redbubble._publish_design
\* (lines 369-375): the click is inside a try whose "except Exception" only
\* logs, so the call returns whether or not the click happened
ClickStep(clicked) ==
    IF clicked \/ Catches("TimeoutException", "Exception") THEN "return" ELSE "TimeoutException"

SpreadshirtUpload(page) ==
    LET inTry == CASE page = "limit" -> "SystemExit"
                   [] page = "error" -> "WebDriverException"
                   [] page \in {"published", "publish_failed"} ->
                        IF ClickStep(page = "published") = "return" THEN "none"
                        ELSE ClickStep(page = "published")
                   [] OTHER          -> "none"
    IN  IF inTry = "none" THEN [raised |-> "none", result |-> page # "upload_failed"]
        ELSE IF Catches(inTry, "Exception") THEN [raised |-> "none", result |-> FALSE]
        ELSE [raised |-> inTry, result |-> FALSE]

\* redbubble._upload_with_selenium returns None or raises; a return is what
\* redbubble.process_subdir takes as success (result TRUE here)
RedbubblePageOutcomes == {"published", "publish_failed", "error", "limit"}
RedbubbleUpload(page) ==
    CASE page \in {"published", "publish_failed"} ->
             IF ClickStep(page = "published") = "return"
             THEN [raised |-> "none", result |-> TRUE]
             ELSE [raised |-> ClickStep(page = "published"), result |-> FALSE]
      [] page = "limit"     -> [raised |-> "SystemExit", result |-> FALSE]
      [] OTHER              -> [raised |-> "WebDriverException", result |-> FALSE]

PageOutcomes(m) == IF m = "spreadshirt" THEN SpreadshirtPageOutcomes ELSE RedbubblePageOutcomes
Upload(m, page) == IF m = "spreadshirt" THEN SpreadshirtUpload(page) ELSE RedbubbleUpload(page)

\* shutil.move(src, archive): raises shutil.Error when the archive folder
\* already holds an entry of that name
MoveRaises(name, arch) == name \in inside[arch]

\* find_image_file and the three read_file_contents calls (utils), the glob
\* and the exists() checks (redbubble): FileNotFoundError unless all four
\* exist. The first image found is taken and what was read is stripped;
\* neither the number of images nor the text read is looked at.
Validates(name) == FileKinds \subseteq FilesOf(name)

\* The try block of process_subdir: what it raises, whether the upload
\* callable was invoked and with what result, and where the folder is if
\* nothing was raised.
TryBlock(m, name, page) ==
    IF ~Validates(name)
    THEN [raised |-> "FileNotFoundError", upload |-> "not_called", dest |-> "original"]
    ELSE LET u == Upload(m, page)
             arch == IF u.result THEN UsedOf(m) ELSE ErrorOf(m)
         IN  IF u.raised # "none"
             THEN [raised |-> u.raised, upload |-> u.raised, dest |-> "original"]
             ELSE IF MoveRaises(name, arch)
             THEN [raised |-> "shutil.Error", upload |-> IF u.result THEN "true" ELSE "false",
                   dest |-> "original"]
             ELSE [raised |-> "none", upload |-> IF u.result THEN "true" ELSE "false",
                   dest |-> IF u.result THEN "used" ELSE "error"]

\* process_subdir (utils.py 353-413, redbubble.py 592-657): the try block,
\* then "except FileNotFoundError" and "except Exception", each of which
\* moves the folder to the error archive and returns False.
\*   ret: "True" | "False" | the exception class that leaves the call
process_subdir(m, name, page) ==
    LET t == TryBlock(m, name, page)
    IN  IF t.raised = "none"
        THEN [upload |-> t.upload, dest |-> t.dest,
              ret |-> IF t.dest = "used" THEN "True" ELSE "False"]
        ELSE IF Catches(t.raised, "FileNotFoundError") \/ Catches(t.raised, "Exception")
        THEN IF MoveRaises(name, ErrorOf(m))
             THEN [upload |-> t.upload, dest |-> "original", ret |-> "shutil.Error"]
             ELSE [upload |-> t.upload, dest |-> "error", ret |-> "False"]
        ELSE [upload |-> t.upload, dest |-> "original", ret |-> t.raised]

NoCall == [name |-> "none", files |-> {}, complete |-> FALSE, page |-> "none", upload |-> "not_called",
           dest |-> "original", ret |-> "none", rest |-> {}]

\* A job folder appears in the store (a generation run, or the operator).
AddJob ==
    /\ cmd = "upload" /\ upc # "iterating" /\ added < MaxAdded
    /\ \E name \in JobNames \ top : \E fs \in ContentsOf(name) :
         /\ top' = top \cup {name}
         /\ files' = [files EXCEPT ![name] = fs]
    /\ added' = added + 1
    /\ UNCHANGED notUp
    /\ UNCHANGED <<exitCode, launched, quitted, mk, upc, inside, subdirs, visits,
                   last, runs>>

\* upload_spreadshirt / upload_redbubble up to the loop of iterate_and_upload:
\* the browser is started, the two archive folders are created (exist_ok),
\* the folders to process are listed.
UploadStart ==
    /\ cmd = "upload" /\ upc # "iterating" /\ runs < MaxRuns
    /\ runs' = runs + 1
    /\ \E m \in Markets, started \in BOOLEAN :
         /\ mk' = m
         /\ visits' = [d \in DirNames |-> 0]
         /\ last' = NoCall
         /\ IF started
            THEN /\ launched' = launched + 1
                 /\ top' = top \cup {UsedOf(m), ErrorOf(m)}
                 /\ inside' = [a \in ArchNames |->
                                 IF a \in {UsedOf(m), ErrorOf(m)} \ top THEN {} ELSE inside[a]]
                 /\ subdirs' = top' \ ExcludeFolders(m)
                 /\ upc' = "iterating"
                 /\ exitCode' = -1
                 /\ UNCHANGED quitted
            ELSE \* start_chrome raised (spreadshirt: it leaves the command;
                 \* redbubble: line 99 logs it and the command returns)
                 /\ upc' = "aborted"
                 /\ exitCode' = IF m = "spreadshirt" THEN 1 ELSE 0
                 /\ subdirs' = {}
                 /\ UNCHANGED <<launched, quitted, top, inside>>
    /\ UNCHANGED notUp
    /\ UNCHANGED <<files, added>>

\* One iteration of the loop of iterate_and_upload: process_subdir on the
\* next folder, and what an exception leaving it does to the run.
\*   spreadshirt: nothing between the loop and the command catches it, and
\*                driver.quit() (line 63) is not reached; whether the
\*                interpreter still finalizes the driver object on its way
\*                out is not determined by the program (finalized);
\*   redbubble:   the "with SB(...)" block closes the browser when an
\*                Exception passes it, and line 99 catches the Exception and
\*                the command returns; for SystemExit the program itself
\*                has no closing code either (finalized).
\* last.rest is the part of the list built at line 327 the loop had not come
\* to when the call was over.
ProcessSubdir ==
    /\ cmd = "upload" /\ upc = "iterating" /\ subdirs # {}
    /\ \E name \in subdirs, page \in PageOutcomes(mk), finalized \in BOOLEAN :
         LET r == process_subdir(mk, name, page)
             arch == IF r.dest = "used" THEN UsedOf(mk) ELSE ErrorOf(mk)
             left == r.ret \notin {"True", "False"}
         IN  /\ last' = [name |-> name, files |-> FilesOf(name), complete |-> Validates(name),
                         page |-> IF Validates(name) THEN page ELSE "none",
                         upload |-> r.upload, dest |-> r.dest, ret |-> r.ret,
                         rest |-> subdirs \ {name}]
             /\ visits' = [visits EXCEPT ![name] = @ + 1]
             /\ IF r.dest = "original"
                THEN UNCHANGED <<top, inside, files>>
                ELSE /\ top' = top \ {name}
                     /\ inside' = [a \in ArchNames |->
                                     IF a = arch THEN inside[a] \cup {name}
                                     ELSE IF a = name THEN {} ELSE inside[a]]
                     /\ files' = IF name \in JobNames THEN [files EXCEPT ![name] = {}] ELSE files
             /\ IF ~left
                THEN /\ subdirs' = subdirs \ {name}
                     /\ UNCHANGED <<upc, exitCode, quitted>>
                ELSE /\ subdirs' = {}
                     /\ upc' = IF r.ret = "SystemExit" THEN "exited" ELSE "aborted"
                     /\ exitCode' = IF r.ret = "SystemExit" \/ mk = "spreadshirt" THEN 1 ELSE 0
                     /\ quitted' = IF (mk = "redbubble" /\ r.ret # "SystemExit") \/ finalized
                                   THEN quitted \cup {launched} ELSE quitted
    /\ UNCHANGED notUp
    /\ UNCHANGED <<launched, mk, runs, added>>

\* the loop is over (or there was nothing to process): the browser is closed
\* and the command returns
UploadFinish ==
    /\ cmd = "upload" /\ upc = "iterating" /\ subdirs = {}
    /\ quitted' = quitted \cup {launched}
    /\ upc' = "finished"
    /\ exitCode' = 0
    /\ UNCHANGED notUp
    /\ UNCHANGED <<launched, mk, top, files, inside, subdirs, visits, last, runs, added>>

UpNext == AddJob \/ UploadStart \/ ProcessSubdir \/ UploadFinish

\* The store a command finds: empty, or as an earlier run of a dispatcher
\* left it, with the two archive folders of that marketplace (lines 324-325)
\* and a folder "a" moved into one of them (line 397 or 408).
EmptyStore == [top |-> {}, inside |-> [a \in ArchNames |-> {}]]
StoreSeeds ==
    {EmptyStore}
    \cup {[top |-> {UsedOf(m), ErrorOf(m)},
           inside |-> [a \in ArchNames |->
                         IF a = (IF used THEN UsedOf(m) ELSE ErrorOf(m)) THEN {"a"} ELSE {}]] :
             m \in Markets, used \in BOOLEAN}

UpInit ==
    /\ mk = "none" /\ upc = "idle"
    /\ files = [n \in JobNames |-> {}]
    /\ \E seed \in (IF cmd = "upload" THEN StoreSeeds ELSE {EmptyStore}) :
         top = seed.top /\ inside = seed.inside
    /\ subdirs = {} /\ visits = [d \in DirNames |-> 0]
    /\ last = NoCall /\ runs = 0 /\ added = 0

\* ------------------------------------------- _parse_time, _wait_until_time
\* The day "today" in Europe/Berlin: a day of standard time, a day of summer
\* time, the day the clocks go forward (02:00 CET -> 03:00 CEST) or the day
\* they go back (03:00 CEST -> 02:00 CET). Times are minutes; a datetime is a
\* wall-clock reading counted from today's midnight plus the UTC offset its
\* tzinfo carries.
DayKinds == {"winter", "summer", "spring_forward", "fall_back"}
CET == 60
CEST == 120

\* the offsets datetime.now(berlin_tz) can carry at wall-clock minute w
NowOffsets(day, w) ==
    CASE day = "winter" -> {CET}
      [] day = "summer" -> {CEST}
      [] day = "spring_forward" -> IF w < 120 THEN {CET} ELSE IF w < 180 THEN {} ELSE {CEST}
      [] OTHER -> IF w < 120 THEN {CEST} ELSE IF w < 180 THEN {CEST, CET} ELSE {CET}

\* berlin_tz.localize(naive) with the default is_dst=False: a reading the day
\* does not have, or has twice, gets the standard-time offset
localize(day, w) ==
    CASE day = "winter" -> CET
      [] day = "summer" -> CEST
      [] day = "spring_forward" -> IF w < 180 THEN CET ELSE CEST
      [] OTHER -> IF w < 120 THEN CEST ELSE CET

\* the instant of an aware datetime (what <= and - compare)
Instant(t) == t.wall - t.off

\* target_time += timedelta(days=1): wall-clock arithmetic, tzinfo kept
PlusOneDay(t) == [wall |-> t.wall + 1440, off |-> t.off]

\* _parse_time(time_str) at the moment n, for a string strptime accepts
_parse_time(n, t) ==
    LET w == StrpHour(t) * 60 + t.m
        target == [wall |-> w, off |-> localize(n.day, w)]
    IN  IF Instant(target) <= Instant(n) THEN PlusOneDay(target) ELSE target

NowHours == {0, 1, 2, 3, 12, 23}
NowMinutes == {0, 30}
Nows ==
    {n \in [day : DayKinds, wall : {h * 60 + m : h \in NowHours, m \in NowMinutes},
            off : {CET, CEST}] : n.off \in NowOffsets(n.day, n.wall)}
ClockStrs ==
    {TimeStr(h, m, sp, pm) : h \in {0, 1, 2, 3, 11, 12, 13}, m \in {0, 15, 75},
                             sp \in {0, 1}, pm \in BOOLEAN}
NoTime == [wall |-> 0, off |-> 0]

\* target_time = _parse_time(target_time_str), line 482
ParseTime ==
    /\ cmd = "parse_time" /\ tpc = "call"
    /\ IF StrpOk(time_str)
       THEN /\ target_time' = _parse_time(now, time_str)
            /\ tpc' = "parsed"
       ELSE /\ tpc' = "raised"          \* ValueError from strptime
            /\ UNCHANGED target_time
    /\ UNCHANGED notTime
    /\ UNCHANGED <<now, time_str, waited>>

\* _wait_until_time(target_time), line 483: sleep while the difference to
\* the clock is positive, then raise AbortScriptError
WaitUntilTime ==
    /\ cmd = "parse_time" /\ tpc = "parsed"
    /\ waited' = IF Instant(target_time) - Instant(now) > 0
                 THEN Instant(target_time) - Instant(now) ELSE 0
    /\ tpc' = "aborted"
    /\ UNCHANGED notTime
    /\ UNCHANGED <<now, time_str, target_time>>

TimeNext == ParseTime \/ WaitUntilTime

TimeIdle ==
    /\ now = [day |-> "winter", wall |-> 0, off |-> CET]
    /\ time_str = TimeStr(12, 0, 1, FALSE)
    /\ target_time = NoTime /\ tpc = "idle" /\ waited = 0

TimeInit == now \in Nows /\ time_str \in ClockStrs /\ target_time = NoTime /\ tpc = "call" /\ waited = 0

\* ----------------------------------------------------------------- upscale
\* start_tor(tor_binary_path): the path given, else which("tor"); without a
\* binary the process exits with status 1 (line 69)
start_tor(path, which) == IF path \/ which THEN "started" ELSE "SystemExit"

\* upscale(), line 486: tor_process = start_tor(tor_binary_path). The exit
\* passes the finally of line 502 with tor_process still None.
StartTor ==
    /\ cmd = "upscale" /\ upsPc = "start_tor"
    /\ IF start_tor(tor_binary_path, whichTor) = "started"
       THEN /\ tor_process' = TRUE
            /\ torStarts' = torStarts + 1
            /\ upsPc' = "wait_for_tor"
            /\ UNCHANGED exitCode
       ELSE /\ upsPc' = "exited"
            /\ exitCode' = 1
            /\ UNCHANGED <<tor_process, torStarts>>
    /\ UNCHANGED notTor
    /\ UNCHANGED <<tor_binary_path, whichTor, upsResult>>

\* wait_for_tor(timeout=60): returns, or raises TimeoutError, which leaves
\* upscale() through the finally that stops Tor
WaitForTor ==
    /\ cmd = "upscale" /\ upsPc = "wait_for_tor"
    /\ \E connected \in BOOLEAN :
         IF connected
         THEN upsPc' = "bigjpg" /\ UNCHANGED tor_process
         ELSE upsPc' = "raised" /\ tor_process' = FALSE
    /\ UNCHANGED notTor
    /\ UNCHANGED <<exitCode, tor_binary_path, whichTor, torStarts, upsResult>>

\* upscale_bigjpg returns the upscaled path or image_path (never None for a
\* non-empty image_path), or setup_driver raises; Tor is stopped either way
UpscaleBigjpg ==
    /\ cmd = "upscale" /\ upsPc = "bigjpg"
    /\ \E out \in {"upscaled", "image_path", "raise"} :
         /\ upsResult' = IF out = "raise" THEN "none" ELSE out
         /\ upsPc' = IF out = "raise" THEN "raised" ELSE "returned"
    /\ tor_process' = FALSE
    /\ UNCHANGED notTor
    /\ UNCHANGED <<exitCode, tor_binary_path, whichTor, torStarts>>

TorNext == StartTor \/ WaitForTor \/ UpscaleBigjpg

TorIdle ==
    /\ upsPc = "idle" /\ tor_binary_path = FALSE /\ whichTor = FALSE /\ tor_process = FALSE
    /\ torStarts = 0 /\ upsResult = "none"

TorInit ==
    /\ upsPc = "start_tor" /\ tor_binary_path \in BOOLEAN /\ whichTor \in BOOLEAN
    /\ tor_process = FALSE /\ torStarts = 0 /\ upsResult = "none"

\* ------------------------------------------------------------------ verify
\* verify(profile_name, site), line 37: driver = start_chrome(profile_name, None)
\* (the profiles of the command are capsolver, ChatGPT and Spreadshirt, none
\* of them "Default"). verifysite catches the exception and exits with 1.
VerifyStart ==
    /\ cmd = "verify" /\ vpc = "start"
    /\ \E o \in StartChromeOutcomes("Spreadshirt", FALSE) :
         CASE o = "ok" ->
                /\ launched' = launched + 1
                /\ vpc' = "opened"
                /\ UNCHANGED <<quitted, exitCode>>
           [] o = "fail_after_launch" ->
                /\ launched' = launched + 1
                /\ quitted' = quitted \cup {launched + 1}
                /\ vpc' = "raised" /\ exitCode' = 1
           [] OTHER ->
                /\ vpc' = "raised" /\ exitCode' = 1
                /\ UNCHANGED <<launched, quitted>>
    /\ UNCHANGED notVerify

\* verify lines 38-50: driver.get(site), the cookies, input(), save_cookies,
\* driver.quit(). Nothing in verify catches an exception of these calls, so
\* one that is raised skips driver.quit(); whether the interpreter still
\* finalizes the driver object on its way out is not determined by the
\* program (finalized).
VerifySession ==
    /\ cmd = "verify" /\ vpc = "opened"
    /\ \E out \in {"ok", "get_raises", "save_cookies_raises"}, finalized \in BOOLEAN :
         IF out = "ok"
         THEN /\ quitted' = quitted \cup {launched}
              /\ vpc' = "returned" /\ exitCode' = 0
         ELSE /\ quitted' = IF finalized THEN quitted \cup {launched} ELSE quitted
              /\ vpc' = "raised" /\ exitCode' = 1
    /\ UNCHANGED notVerify
    /\ UNCHANGED launched

VerifyNext == VerifyStart \/ VerifySession

\* ------------------------------------------- write_metadata and its readers
\* A text is the sequence of its lines. What _get_text_from_element returns
\* is the trimmed join of the <p> elements of the answer, one per line: one
\* paragraph, several, or nothing at all ("").
MetaFiles == {"title.txt", "tags.txt", "description.txt"}
TitleTexts == {<<"T1">>, <<"T2">>}
TagsTexts == {<<"g1">>, <<"">>}
DescriptionTexts == {<<"D1">>, <<"D2", "D3">>}

\* (open(..., "w"): the file is truncated before the write)
WriteMetadataTruncates(m, title, tags, description) ==
    [f \in MetaFiles |-> CASE f = "title.txt" -> title
                           [] f = "tags.txt"  -> tags
                           [] OTHER           -> description]

\* write_metadata: each file is opened with "a" and f"{text}\n" is written
write_metadata(m, title, tags, description) ==
    [f \in MetaFiles |-> m[f] \o (CASE f = "title.txt" -> title
                                    [] f = "tags.txt"  -> tags
                                    [] OTHER           -> description)]

\* str.strip() on the content of a file: blank lines at either end go
RECURSIVE StripLeft(_)
StripLeft(ls) == IF ls # << >> /\ Head(ls) = "" THEN StripLeft(Tail(ls)) ELSE ls
RECURSIVE StripRight(_)
StripRight(ls) ==
    IF ls # << >> /\ ls[Len(ls)] = "" THEN StripRight(SubSeq(ls, 1, Len(ls) - 1)) ELSE ls
Strip(ls) == StripRight(StripLeft(ls))

\* read_file_contents: f.read().strip(), the whole file
read_file_contents(ls) == Strip(ls)

NoRead == [f \in MetaFiles |-> <<"unread">>]

\* _start_generating line 774: write_metadata on the folder _process_image
\* returned (the same folder whenever the title is the same)
WriteMetadata ==
    /\ cmd = "metadata" /\ writes < MaxWrites
    /\ \E title \in TitleTexts, tags \in TagsTexts, description \in DescriptionTexts :
         /\ meta' = write_metadata(meta, title, tags, description)
         /\ lastWrite' = [f \in MetaFiles |-> CASE f = "title.txt" -> title
                                                [] f = "tags.txt"  -> tags
                                                [] OTHER           -> description]
    /\ writes' = writes + 1
    /\ UNCHANGED readOut
    /\ UNCHANGED notMeta

\* process_subdir lines 383-385: the three read_file_contents calls whose
\* results are handed to the upload callable
ReadMetadata ==
    /\ cmd = "metadata" /\ writes > 0
    /\ readOut' = [f \in MetaFiles |-> read_file_contents(meta[f])]
    /\ UNCHANGED <<meta, writes, lastWrite>>
    /\ UNCHANGED notMeta

MetaNext == WriteMetadata \/ ReadMetadata

MetaInit ==
    /\ meta = [f \in MetaFiles |-> << >>] /\ writes = 0
    /\ lastWrite = [f \in MetaFiles |-> << >>] /\ readOut = NoRead

\* ---------------------------------------------------- the generategpt command
\* the parameters of generate_image_selenium_gpt (line 787), none with a default
GeneratorParams == {"output_directory"}

\* the keys of params (cli.py 135-139): ctx.obj holds output_directory (the
\* group) and tor_binary_path (line 132, None when the option is not given)
CliKeywords == {"tor_binary_path", "output_directory"}

\* f(**kw): Python binds the keywords to the parameters before the body
\* runs and raises TypeError for a keyword f does not have or a required
\* parameter that is not given
CallBinds(kw, params) == kw = params

\* how a call whose body ran can end, as far as the loop of the command
\* tells them apart
GeneratorOutcomes == {"return", "AbortScriptError", "SystemExit"}

\* One turn of "while True" (cli.py 133-142): the call, "except
\* AbortScriptError: continue", and nothing else caught.
GenerateGptCall ==
    /\ cmd = "generategpt" /\ cliPc = "calling" /\ invocations < MaxInvocations
    /\ invocations' = invocations + 1
    /\ \E body \in GeneratorOutcomes :
         LET out == IF CallBinds(CliKeywords, GeneratorParams) THEN body ELSE "TypeError"
         IN  /\ cliOut' = out
             /\ entered' = IF out = "TypeError" THEN entered ELSE entered + 1
             /\ IF out = "return" \/ Catches(out, "AbortScriptError")
                THEN cliPc' = "calling" /\ UNCHANGED exitCode
                ELSE cliPc' = "ended" /\ exitCode' = 1
    /\ UNCHANGED notCli

CliNext == GenerateGptCall

CliInit ==
    /\ cliPc = (IF cmd = "generategpt" THEN "calling" ELSE "idle")
    /\ invocations = 0 /\ entered = 0 /\ cliOut = "none"

\* ------------------------------ _process_image after the two upscale passes
\* Lines 329-336 as a function of what the two upscale(...) expressions
\* handed back. upscale returns the path of a new file, or, when the pass
\* was aborted, the path it was given (bigjpg_upscaler.py 493-499).
\*   "raw" the image saved at line 318, "bg" the file bg_remove returned,
\*   "up1" / "up2" the files a first / second pass produced,
\*   "pil" the file pilling_image writes next to its input.
PassResults ==
    {[first |-> f, second |-> sd] : f \in {"bg", "up1"}, sd \in {"bg", "up1", "up2"}}

\* the second pass is given what the first returned
PassesPossible == {r \in PassResults : r.second \in {r.first, "up2"}}

\* os.remove(path) for each path in turn: FileNotFoundError at the first
\* path that is not there
RECURSIVE RemoveEach(_, _, _)
RemoveEach(d, paths, done) ==
    IF paths = << >> THEN [disk |-> d, removed |-> done, raised |-> "none"]
    ELSE IF Head(paths) \notin d
         THEN [disk |-> d, removed |-> done, raised |-> "FileNotFoundError"]
         ELSE RemoveEach(d \ {Head(paths)}, Tail(paths), Append(done, Head(paths)))

\* lines 329-336: pilling_image and os.remove of the second result, then
\* os.remove of the bg-removed file, of the first result and of the raw image
ProcessImageRemovals(r) == <<r.second, "bg", r.first, "raw">>

ProcessImageTail ==
    /\ cmd = "process_image" /\ piOut = "none"
    /\ LET res == RemoveEach(disk \cup {"pil"}, ProcessImageRemovals(passes), << >>)
       IN  /\ disk' = res.disk
           /\ removed' = res.removed
           /\ piOut' = IF res.raised = "none" THEN "return" ELSE res.raised
    /\ UNCHANGED passes
    /\ UNCHANGED notPi

PiNext == ProcessImageTail

PiInit ==
    /\ passes \in (IF cmd = "process_image" THEN PassesPossible
                   ELSE {[first |-> "bg", second |-> "bg"]})
    /\ disk = {"raw", "bg", passes.first, passes.second}
    /\ removed = << >> /\ piOut = "none"

\* --------------------------------- _scrape_vexels_image, the loop over assets
\* A title is the sequence of its characters. str.lower() on the letters
\* that occur in the titles and words used here:
Lower(c) ==
    CASE c = "A" -> "a" [] c = "B" -> "b" [] c = "D" -> "d" [] OTHER -> c
LowerStr(s) == [i \in 1..Len(s) |-> Lower(s[i])]

\* str.strip() on the textContent of the title element
StripBlanks(s) ==
    LET idx == {i \in 1..Len(s) : s[i] # " "}
    IN  IF idx = {} THEN << >>
        ELSE SubSeq(s, CHOOSE i \in idx : \A j \in idx : i <= j,
                       CHOOSE i \in idx : \A j \in idx : i >= j)

\* "word in title"
Contains(s, w) == \E i \in 0..(Len(s) - Len(w)) : SubSeq(s, i + 1, i + Len(w)) = w

\* (the words compared as they are written)
TitleForbiddenAsWritten(title, words) == \E w \in words : Contains(title, w)

\* lines 604-606 and 631: any(word in img_title.lower() for word in the
\* lower-cased words of the file)
TitleForbidden(title, words) == \E w \in words : Contains(LowerStr(title), LowerStr(w))

\* the "forbidden_words" of resources/vexel_forbidden_words.json
ForbiddenWords == {<<"B", "a", "d">>}

\* An asset choice() can return: the textContent of its title element,
\* whether its img has a src, and what goes wrong while it is handled
\* ("WebDriverException": a Selenium call raises, disconnected or not;
\* "RequestException": the download fails).
TitleContents ==
    {<< >>, <<" ">>, <<" ", "c", "a", "t", " ">>, <<"B", "A", "D", " ", "c", "a", "t">>,
     <<"b", "a", "d">>}
Assets == [text : TitleContents, src : BOOLEAN,
           step : {"ok", "WebDriverException", "RequestException"}]
NoAsset == [text |-> << >>, src |-> FALSE, step |-> "none"]

\* range(10), line 610
ScrapeAttempts == 10

\* One turn of the for loop (lines 611-666): "image" (the temporary file is
\* returned), "continue", or "None" (an exception that is not a
\* WebDriverException reaches the "except Exception" of line 671).
ExamineAsset(a, words) ==
    IF a.step = "WebDriverException" THEN "continue"
    ELSE IF StripBlanks(a.text) = << >> THEN "continue"
    ELSE IF TitleForbidden(StripBlanks(a.text), words) THEN "continue"
    ELSE IF ~a.src THEN "continue"
    ELSE IF a.step = "RequestException"
         THEN IF Catches("RequestException", "WebDriverException") THEN "continue" ELSE "None"
    ELSE "image"

\* lines 584-608: the page is loaded and the word list is read; an exception
\* of driver.get or of the wait, or a missing word file, returns None
ScrapeOpen ==
    /\ cmd = "scrape" /\ scrOut = "start"
    /\ \E opened \in BOOLEAN : scrOut' = IF opened THEN "running" ELSE "None"
    /\ UNCHANGED <<examined, picked>>
    /\ UNCHANGED notScr

ScrapeAsset ==
    /\ cmd = "scrape" /\ scrOut = "running" /\ examined < ScrapeAttempts
    /\ examined' = examined + 1
    /\ \E a \in Assets :
         LET r == ExamineAsset(a, ForbiddenWords)
         IN  /\ scrOut' = IF r = "continue" THEN "running" ELSE r
             /\ picked' = IF r = "image" THEN a ELSE picked
    /\ UNCHANGED notScr

\* lines 668-669: the loop is over
ScrapeGiveUp ==
    /\ cmd = "scrape" /\ scrOut = "running" /\ examined >= ScrapeAttempts
    /\ scrOut' = "None"
    /\ UNCHANGED <<examined, picked>>
    /\ UNCHANGED notScr

ScrNext == ScrapeOpen \/ ScrapeAsset \/ ScrapeGiveUp

ScrInit ==
    /\ scrOut = (IF cmd = "scrape" THEN "start" ELSE "idle")
    /\ examined = 0 /\ picked = NoAsset

\* ---------------------------------------------------- _get_text_from_element
\* retries: int = 10 (line 152); the three calls of _start_generating use it
DefaultRetries == 10
RetriesArgs == 0..DefaultRetries

\* What one turn of the try block (lines 170-199) meets:
\*   raised  "none", or the exception _wait_for_element / execute_script raise
\*           (a TimeoutException of the wait itself never leaves
\*           _wait_for_element)
\*   isStr   whether execute_script returned a str
\*   chars   the characters of that str
\*   obs     what _handle_errors finds when the except clause calls it
\*   gateway what _bad_gateway returns
ScriptTexts == {<< >>, <<" ">>, <<"T">>, <<" ", "T", " ", "x", " ">>}
ScriptRaises == {"none", "NoSuchElementException", "TimeoutException", "WebDriverException"}
Turns == [raised : ScriptRaises, isStr : BOOLEAN, chars : ScriptTexts,
          obs : {o \in GenObservations : o.kind \in {"no_span", "generic"}},
          gateway : BOOLEAN]

\* (a turn that returns whatever the script gave)
TurnOutcomeUnchecked(t) ==
    IF t.raised = "none" THEN "return" ELSE "next"

\* lines 169-211 up to the "if attempt < retries - 1": "return", "next", or
\* the exception class that leaves the function
TurnOutcome(t) ==
    IF t.raised = "none"
    THEN IF t.isStr /\ StripBlanks(t.chars) # << >> THEN "return" ELSE "next"
    ELSE IF Catches(t.raised, "NoSuchElementException") \/ Catches(t.raised, "TimeoutException")
    THEN IF _handle_errors(t.obs) # "return" THEN _handle_errors(t.obs)
         ELSE IF t.gateway THEN "AbortScriptError"
         ELSE "next"
    ELSE t.raised

\* one turn of "for attempt in range(retries)"; after the last turn line 219
\* raises AbortScriptError
GetTextTurn ==
    /\ cmd = "get_text" /\ gtOut = "running" /\ gtAttempts < gtRetries
    /\ gtAttempts' = gtAttempts + 1
    /\ \E t \in Turns :
         LET o == TurnOutcome(t)
         IN  /\ gtOut' = IF o = "next"
                         THEN IF gtAttempts < gtRetries - 1 THEN "running" ELSE "AbortScriptError"
                         ELSE o
             /\ gtText' = IF o = "return" THEN StripBlanks(t.chars) ELSE gtText
    /\ UNCHANGED gtRetries
    /\ UNCHANGED notGt

\* lines 221-222: the loop had no turn to make
GetTextNothingFound ==
    /\ cmd = "get_text" /\ gtOut = "running" /\ gtAttempts >= gtRetries
    /\ gtOut' = "AbortScriptError"
    /\ UNCHANGED <<gtRetries, gtAttempts, gtText>>
    /\ UNCHANGED notGt

GtNext == GetTextTurn \/ GetTextNothingFound

GtInit ==
    /\ gtRetries \in (IF cmd = "get_text" THEN RetriesArgs ELSE {DefaultRetries})
    /\ gtOut = (IF cmd = "get_text" THEN "running" ELSE "idle")
    /\ gtAttempts = 0 /\ gtText = << >>

\* ------------------------------------------------------------ upscale_bigjpg
\* retry_limit = 3 (line 362)
retry_limit == 3

\* What one turn of the loop meets after setup_driver():
\*   too_big_*   check_warning_modal reports "image_too_big" after the page
\*               was opened, after the upload, or while the progress is watched
\*   warning_*   it reports "warning" at one of these three places
\*   stuck       monitor_progress raises Exception (0 % or below 100 % too long)
\*   navigate    navigate_to_bigjpg or a Selenium call raises
\*   no_url      the progress reached 100 % and there is no download link
\*   download_fails   _download_and_process_image raises
\*   downloaded  the upscaled image was downloaded and saved
TooBigEvents == {"too_big_initial", "too_big_upload", "too_big_progress"}
WarningEvents == {"warning_initial", "warning_upload", "warning_progress"}
BigjpgEvents ==
    TooBigEvents \cup WarningEvents
    \cup {"stuck", "navigate", "no_url", "download_fails", "downloaded"}

\* (a too big image handled like a warning)
BigjpgTryTooBigRetried(ev) ==
    IF ev = "downloaded" THEN "break" ELSE "next"

\* the try statement of lines 367-407: "return" (return image_path),
\* "break" (result is set), "next" (the turn is over without a result), or
\* the exception class that neither except clause takes
BigjpgTry(ev) ==
    LET raised == CASE ev \in WarningEvents \cup {"stuck", "download_fails"} -> "Exception"
                    [] ev = "navigate" -> "WebDriverException"
                    [] OTHER -> "none"
    IN  IF raised # "none"
        THEN IF Catches(raised, "RuntimeError") \/ Catches(raised, "Exception")
             THEN "next" ELSE raised
        ELSE IF ev \in TooBigEvents THEN "return"
        ELSE IF ev = "downloaded" THEN "break"
        ELSE "next"

\* line 366: driver = setup_driver(), outside the try. When webdriver.Chrome
\* or maximize_window raises, the exception leaves upscale_bigjpg; a browser
\* that was already started (leaked) is then quit by nobody.
BigjpgSetup ==
    /\ cmd = "bigjpg" /\ bjPc = "setup" /\ bjRetry < retry_limit
    /\ \E ok \in BOOLEAN, leaked \in BOOLEAN :
         IF ok
         THEN /\ launched' = launched + 1
              /\ bjRetry' = bjRetry + 1
              /\ bjPc' = "attempt"
         ELSE /\ launched' = IF leaked THEN launched + 1 ELSE launched
              /\ bjPc' = "raised"
              /\ UNCHANGED bjRetry
    /\ UNCHANGED <<quitted, bjResult, bjEvent>>
    /\ UNCHANGED notBj

\* lines 367-417 for one turn: the try statement, the finally that quits the
\* driver of the turn, and what follows the loop when it was the last turn
BigjpgTurn ==
    /\ cmd = "bigjpg" /\ bjPc = "attempt"
    /\ quitted' = driver_quit(quitted, launched)
    /\ \E ev \in BigjpgEvents :
         /\ bjEvent' = ev
         /\ CASE BigjpgTry(ev) = "return" ->
                    bjPc' = "returned" /\ bjResult' = "image_path"
              [] BigjpgTry(ev) = "break" ->
                    bjPc' = "returned" /\ bjResult' = "upscaled"
              [] BigjpgTry(ev) = "next" ->
                    IF bjRetry < retry_limit
                    THEN bjPc' = "setup" /\ UNCHANGED bjResult
                    ELSE bjPc' = "returned" /\ bjResult' = "image_path"
              [] OTHER ->
                    bjPc' = "raised" /\ UNCHANGED bjResult
    /\ UNCHANGED <<launched, bjRetry>>
    /\ UNCHANGED notBj

BjNext == BigjpgSetup \/ BigjpgTurn

BjInit ==
    /\ bjPc = (IF cmd = "bigjpg" THEN "setup" ELSE "idle")
    /\ bjRetry = 0 /\ bjResult = "none" /\ bjEvent = "none"

\* ------------------------------------------ the title of a job and its folder
\* What _get_text_from_element returns for the title prompt: a stripped
\* string that is not empty
TitleAnswers ==
    {<<"C", "a", "t">>, <<"C", "a", "t", "?">>, <<"C", "a", "t", "!">>, <<"?">>,
     <<"D", "o", "g">>}

\* clean_string: re.sub(r'[\\/*?:"<>|]', "", string); of these characters the
\* answers above hold "?"
clean_string(string) == SelectSeq(string, LAMBDA c : c \notin {"\\", "/", "*", "?", ":", "\"", "<", ">", "|"})

\* sub(r"\W", "_", title)[:10], line 311
sanitized_title(title) ==
    LET w == [i \in 1..Len(title) |->
                IF title[i] \in {"C", "D", "a", "g", "o", "t", "_"} THEN title[i] ELSE "_"]
    IN  SubSeq(w, 1, IF Len(w) < 10 THEN Len(w) ELSE 10)

\* sha256(title.encode()).hexdigest()[:8], line 312: a function of the title
\* alone, taken here to give different titles different digests
title_hash(title) == <<"sha256">> \o title

\* output_directory of line 313, below image_dir
output_directory(title) == [sanitized |-> sanitized_title(title), hash |-> title_hash(title)]

\* _start_generating lines 731-733 and 773, _process_image lines 311-318:
\* the title is cleaned, "if title is None" is looked at (re.sub returns a
\* str, so it never is), and the folder named from the title is made with
\* mkdir(parents=True, exist_ok=True)
TitleToFolder ==
    /\ cmd = "job_folder" /\ Len(jobTitles) < MaxJobs
    /\ \E answer \in TitleAnswers :
         LET title == clean_string(answer)
         IN  /\ jobTitles' = Append(jobTitles, title)
             /\ jobFolders' = Append(jobFolders, output_directory(title))
    /\ UNCHANGED notJob

JobNext == TitleToFolder

JobInit == jobTitles = << >> /\ jobFolders = << >>

\* ------------------------------------------------------------ specification
Init ==
    /\ cmd \in {"generate", "upload", "parse_time", "upscale", "verify", "metadata",
                "generategpt", "process_image", "scrape",
                "get_text", "bigjpg", "job_folder"}
    /\ vpc = (IF cmd = "verify" THEN "start" ELSE "idle")
    /\ platform \in (IF cmd = "generate" THEN Platforms ELSE {"supported"})
    /\ exitCode = -1
    /\ GenInit /\ UpInit /\ MetaInit /\ CliInit /\ PiInit /\ ScrInit /\ GtInit /\ BjInit /\ JobInit
    /\ IF cmd = "parse_time" THEN TimeInit ELSE TimeIdle
    /\ IF cmd = "upscale" THEN TorInit ELSE TorIdle

Next == GenNext \/ UpNext \/ TimeNext \/ TorNext \/ VerifyNext \/ MetaNext \/ CliNext \/ PiNext
        \/ ScrNext \/ GtNext \/ BjNext \/ JobNext

Spec == Init /\ [][Next]_vars

\* _get_text_from_element alone, as the sequential code it is: a turn that
\* can be made is made
GetTextInit == Init /\ cmd = "get_text"
GetTextSpec == GetTextInit /\ [][GtNext]_vars /\ WF_vars(GtNext)

\* ========================================================== the claims
Handlers == {"abort_handler", "exc_handler"}
InCycle == pc \in {"scrape", "chat_start", "generate", "post_process", "bg_remove",
                   "bg_running", "upscale_call"} \cup Handlers

\* C1: when a cycle ended in an abort (AbortScriptError or another Exception),
\* then after the handler and before the next cycle opens a browser the
\* registry active_drivers is empty and every driver that was in it has been
\* quit, whatever the stage of the abort and the number of earlier aborts.
C1_RegistryEmptyAfterAbort ==
    /\ [](pc = "loop" => active_drivers = << >>)
    /\ [][(pc \in Handlers /\ pc' # pc)
            => (pc' = "loop" /\ active_drivers' = << >>
                /\ Range(active_drivers) \subseteq quitted')]_vars

C1_Witness ==
    /\ pc = "loop" /\ retries = 3 /\ failedStage = "post_process"
    /\ active_drivers = << >> /\ launched >= 6 /\ quitted = 1..launched

\* C2: one invocation starts the cycle at most max_retries times: retries
\* starts at 0, never decreases, rises by exactly 1 for each failed cycle, the
\* loop stops at the first successful cycle, and no cycle starts once retries
\* has reached max_retries.
C2_RetryBound ==
    /\ [](/\ retries \in 0..max_retries
          /\ cycles <= max_retries
          /\ cycles = retries + (IF InCycle \/ pc = "done" THEN 1 ELSE 0))
    /\ [][/\ retries' \in {retries, retries + 1}
          /\ (retries' = retries + 1) <=> (pc \in Handlers /\ pc' = "loop")
          /\ (cycles' # cycles) => (pc = "loop" /\ retries < max_retries /\ cycles' = cycles + 1)
          /\ (pc \in {"done", "exhausted"}) => (pc' = pc /\ cycles' = cycles)]_vars

C2_Witness == pc = "exhausted" /\ retries = max_retries /\ cycles = max_retries

\* C3: after an abort in any stage the job is never resumed from the failed
\* stage: the registered sessions are closed first, and only then the next
\* cycle begins, at the scrape stage, with a newly launched browser session.
C3_RestartFromScrape ==
    [][/\ (failedStage' # failedStage) => (pc' \in Handlers)
       /\ (pc \in Handlers /\ pc' # pc)
            => (pc' = "loop" /\ Range(active_drivers) \subseteq quitted')
       /\ (pc = "loop" /\ pc' # pc)
            => (/\ pc' \in {"scrape", "abort_handler", "exhausted"}
                /\ pc' = "scrape" => (/\ driver' \notin 1..launched
                                      /\ driver' \notin quitted'
                                      /\ active_drivers' = <<driver'>>
                                      /\ Range(active_drivers) \subseteq quitted))
       /\ (pc' = "chat_start") => (pc \in {"scrape", "chat_start"})
       /\ (pc' = "generate") => (pc \in {"chat_start", "generate"})
       /\ (pc' = "post_process") => (pc \in {"generate", "post_process"})
       /\ (pc' \in {"bg_remove", "bg_running", "upscale_call"})
            => (pc \in {"post_process", "bg_remove", "bg_running", "upscale_call"})]_vars

C3_Witness ==
    /\ pc = "scrape" /\ retries = 1 /\ failedStage = "generate"
    /\ driver \in Live /\ active_drivers = <<driver>> /\ driver > 2

\* ---- the dispatchers
Processed == cmd = "upload" /\ last.name # "none"
JobProcessed == Processed /\ last.name \in JobNames

\* C4: when a process_subdir call on a job folder is over, the folder is in
\* exactly one of the success and the failure archive and no longer at its
\* original path; within one run a folder is processed at most once; and the
\* folders named as the archive folders of the run are never processed.
\* (The call that ends the process with SystemExit is left out here: the
\* statement is tested on the calls that are over while the run goes on or is
\* aborted by an ordinary exception.)
C4_IdempotentArchiving ==
    /\ (JobProcessed /\ last.ret # "SystemExit") => last.dest \in {"used", "error"}
    /\ cmd = "upload" => \A d \in DirNames : visits[d] <= 1
    /\ (cmd = "upload" /\ mk # "none") =>
          /\ subdirs \cap {UsedOf(mk), ErrorOf(mk)} = {}
          /\ last.name \notin {UsedOf(mk), ErrorOf(mk)}

\* C5: a job folder lacking any of the four files is never handed to the
\* upload callable, is classified as failed (process_subdir returns False)
\* and ends in the failure archive, never in the success archive.
C5_CompletenessPrecondition ==
    (JobProcessed /\ ~last.complete) =>
        /\ last.upload = "not_called"
        /\ last.ret = "False"
        /\ last.dest = "error"

\* C6: the folder goes to the success archive iff the upload callable
\* returned a true result; a false result or an exception of the callable
\* puts it into the failure archive.
C6_SuccessArchiveIffTrue ==
    JobProcessed =>
        /\ (last.dest = "used") <=> (last.upload = "true")
        /\ last.upload \in {"false", "WebDriverException"} => last.dest = "error"

\* C9: when the upload-limit message ended the process, the browser session
\* the command opened has been closed and the exit status is not zero.
C9_ExitClosesSessions ==
    (cmd = "upload" /\ upc = "exited") => (launched \in quitted /\ exitCode = 1)

\* C10: the exit raised on the upload-limit message or on a missing Tor
\* binary is caught by nothing: the item it was raised for stays where it
\* was, the run is over with status 1, and after it the run processes no
\* further folder, starts no Tor and returns no result; neither except
\* clause of the generation loop takes it.
C10_ExitNeverCaught ==
    /\ [](/\ LoopHandler("SystemExit") = "propagate"
          /\ (Processed /\ last.page = "limit") =>
               /\ last.ret = "SystemExit" /\ last.dest = "original"
               /\ upc = "exited" /\ subdirs = {} /\ exitCode = 1
          /\ (cmd = "upscale" /\ ~tor_binary_path /\ ~whichTor /\ upsPc # "start_tor") =>
               /\ upsPc = "exited" /\ exitCode = 1
               /\ torStarts = 0 /\ ~tor_process /\ upsResult = "none")
    /\ [][/\ (upc = "exited" /\ upc' = "exited") =>
               /\ visits' = visits /\ last' = last /\ inside' = inside
               /\ subdirs' = subdirs /\ exitCode' = exitCode
          /\ upsPc = "exited" => UNCHANGED torVars]_vars

C10_Witness ==
    /\ cmd = "upload" /\ mk = "redbubble" /\ upc = "exited" /\ last.page = "limit"
    /\ top \cap JobNames = JobNames
    /\ \E d \in JobNames : visits[d] = 0

\* ---- the chat-stage error check
\* C7: a usage-cap message from which a reset time is parsed always ends
\* _handle_errors with AbortScriptError.
C7_WaitEndsInAbort ==
    (cmd = "generate" /\ errOut # "none") =>
        ((errIn.kind = "cap_after_time" /\ StrpOk(errIn.tstr)) => errOut = "AbortScriptError")

\* C8: the instant _parse_time returns is strictly later than now: today at
\* the parsed clock time when that is ahead, else tomorrow at that time.
C8_ParsedTimeInFuture ==
    (cmd = "parse_time" /\ tpc = "parsed") =>
        /\ Instant(target_time) > Instant(now)
        /\ target_time.wall % 1440 = StrpHour(time_str) * 60 + time_str.m
        /\ target_time.wall \in 0..(2 * 1440 - 1)

\* ---- platform errors
\* C11: on an operating system get_chrome_path does not know, or on aarch64
\* without its chromedriver, the generation run does not start a second
\* cycle (browser start-up is not retried) and ends with a non-zero status.
C11_PlatformErrorEndsRun ==
    (cmd = "generate" /\ platform # "supported") =>
        /\ cycles <= 1
        /\ exitCode # 0

\* ---- browser sessions
\* C12: when control has left an entry point that launches drivers (the
\* generation run, a dispatcher run, verify), every driver launched has
\* been quit.
C12_EverySessionClosed ==
    /\ (cmd = "generate" /\ pc \in {"done", "exhausted"}) => Live = {}
    /\ (cmd = "upload" /\ upc \in {"finished", "exited", "aborted"}) => Live = {}
    /\ (cmd = "verify" /\ vpc \in {"returned", "raised"}) => Live = {}

\* C13: during a generation run at most one driver is live at any moment:
\* the scrape driver while scraping, the chat driver during the chat, the
\* background-removal driver while it runs, none between the stages, at the
\* loop head and after the run; and outside the scrape (whose restart quits
\* before it launches) a driver is launched only when none is live.
C13_OneLiveDriver ==
    /\ [](cmd = "generate" =>
            /\ Cardinality(Live) <= 1
            /\ pc = "scrape" => Live = {driver}
            /\ pc = "generate" => Live = {chatgpt_driver}
            /\ pc = "bg_running" => Live = {launched}
            /\ pc \in {"loop", "chat_start", "post_process", "bg_remove", "upscale_call",
                       "done", "exhausted"} => Live = {})
    /\ [][(cmd = "generate" /\ launched' > launched /\ pc # "scrape") => Live = {}]_vars

C13_Witness ==
    /\ cmd = "generate" /\ pc = "bg_running" /\ retries >= 1 /\ bgAttempt = 1
    /\ Live = {launched} /\ launched >= 5

\* ---- stage order
\* C14: within a cycle a stage is entered only when the stage before it has
\* completed successfully: the chat only after the scrape returned an image
\* (its driver quit), post-processing only after all prompts of the chat,
\* the first upscale only after background removal produced its image.
C14_StagesInOrder ==
    cmd = "generate" =>
        /\ pc \in {"chat_start", "generate", "post_process", "bg_remove", "bg_running",
                   "upscale_call", "done"} => (driver # 0 /\ driver \in quitted)
        /\ pc \in {"post_process", "bg_remove", "bg_running", "upscale_call", "done"} =>
              prompt = NumPrompts
        /\ pc = "upscale_call" => bgAttempt < bg_retries

\* ---- the marketplace flows
\* C15: a job folder gets a true upload result, and reaches the success
\* archive, only when the publish step of the marketplace flow succeeded.
C15_SuccessOnlyOnPublish ==
    JobProcessed =>
        /\ last.upload = "true" => last.page = "published"
        /\ last.dest = "used" => last.page = "published"

\* ---- what the dispatcher takes as ready
\* C16: a job folder the generation pipeline created and has not completed
\* (the image or a metadata file is still missing) is not moved into a
\* terminal folder by a dispatcher pass.
C16_PartialNeverArchived ==
    (JobProcessed /\ ~(FileKinds \subseteq last.files)) => last.dest = "original"

\* C17: for a job folder one of whose text files exists but is empty the
\* upload callable is not invoked and the folder does not reach the success
\* archive.
C17_EmptyTextNotReady ==
    (JobProcessed /\ last.files \cap EmptyMarks # {}) =>
        (last.upload = "not_called" /\ last.dest # "used")

\* C18: a job folder holding two image files fails validation: the upload
\* callable is not invoked and the folder is moved to the failure archive.
C18_ExactlyOneImage ==
    (JobProcessed /\ "second_image" \in last.files) =>
        (last.upload = "not_called" /\ last.dest = "error")


\* C19: within one run of a dispatcher a folder is handed to process_subdir,
\* and so to the upload callable, at most once; and a folder that fails (a
\* missing file, a false result, an exception of the callable) does not keep
\* the loop from the folders after it: when the run is over without the
\* upload-limit exit, no folder of the list built at its start is left out.
C19_FailedItemDoesNotStopPass ==
    /\ cmd = "upload" => \A d \in DirNames : visits[d] <= 1
    /\ (Processed /\ upc \in {"finished", "aborted"}) => last.rest = {}

\* C20: a dispatcher run on a store that holds no job folder creates its two
\* archive folders, finds no folder to process and hands nothing to
\* process_subdir: the list it built is empty and stays so until it returns.
PassList == {d \in DirNames : visits[d] > 0} \cup subdirs
C20_NoJobFolderNoWork ==
    (cmd = "upload" /\ upc = "iterating" /\ PassList \cap JobNames = {}) =>
        /\ {UsedOf(mk), ErrorOf(mk)} \subseteq top
        /\ PassList = {}
        /\ last = NoCall

\* C21: every browser session that is live is an entry of the registry
\* active_drivers, so that close_all_drivers reaches it.
C21_LiveSessionsRegistered == Live \subseteq Range(active_drivers)

\* C22: whatever the registry holds (nothing, one driver, several, the same
\* driver twice, drivers their stage has already quit), close_all_drivers
\* quits every registered driver and no other, leaves the registry empty,
\* and a second call changes nothing; the abort handler does exactly this.
C22_CloseAllAnyRegistry ==
    /\ [](LET r == close_all_drivers(active_drivers, quitted)
          IN  /\ r.active_drivers = << >>
              /\ r.quitted = quitted \cup Range(active_drivers)
              /\ close_all_drivers(r.active_drivers, r.quitted) = r)
    /\ [][(pc = "abort_handler" /\ pc' # pc) =>
            /\ active_drivers' = << >>
            /\ quitted' = quitted \cup Range(active_drivers)]_vars

C22_Witness ==
    /\ pc = "loop" /\ failedStage = "generate" /\ active_drivers = << >>
    /\ launched = 2 /\ quitted = {1, 2} /\ retries = 1

C24_LatestEntryConsumed ==
    (cmd = "metadata" /\ readOut # NoRead) =>
        \A f \in MetaFiles : readOut[f] = Strip(lastWrite[f])

\* C25: once the handler of an aborted cycle has run, nothing that cycle put
\* on disk is left: neither the temporary file of the scraped image nor a
\* partly written job folder.
C25_AbortDiscardsArtifacts == cmd = "generate" => leftovers = {}

\* C26: a usage-cap message from which no reset time is obtained (no
\* "after", no clock match, or a clock string strptime rejects) makes
\* _handle_usage_limit call _handle_network_error without any wait, and the
\* prompt ends with AbortScriptError, taken by the abort handler of the loop.
CapWithoutTime(obs) ==
    \/ obs.kind \in {"cap_noafter", "cap_after_nomatch"}
    \/ obs.kind = "cap_after_time" /\ ~StrpOk(obs.tstr)
C26_UnparsedCapIsNetworkError ==
    (cmd = "generate" /\ errOut # "none" /\ CapWithoutTime(errIn)) =>
        /\ "_wait_until_time" \notin Range(UsageLimitCalls(errIn))
        /\ UsageLimitCalls(errIn)[Len(UsageLimitCalls(errIn))] = "_handle_network_error"
        /\ errOut = "AbortScriptError"
        /\ failedStage = "generate"
        /\ pc \in {"abort_handler", "loop", "exhausted"}

C26_Witness ==
    /\ cmd = "generate" /\ pc = "loop" /\ retries = 1 /\ errOut = "AbortScriptError"
    /\ errIn.kind = "cap_after_time" /\ errIn.tstr.h = 13

\* C27: a wait for a UI condition that runs out is not passed over: when the
\* login wait of _start_chat_gpt timed out, the cycle does not go on to the
\* generation stage as if the chat interface had appeared.
C27_TimeoutNeverSilent ==
    (cmd = "generate" /\ login = "timeout") => pc \notin {"generate", "post_process", "done"}

\* C28: whatever a stage raises (AbortScriptError or any other Exception: a
\* Selenium, network, file-system or call error) is taken by one of the two
\* except clauses of the retry loop and never leaves
\* generate_image_selenium_gpt: the cycle it ended is counted once, the loop
\* goes on, and after the fifth failure the function returns normally.
StageExceptions == ExcClasses \ {"SystemExit"}
C28_NoRawExceptionEscapes ==
    /\ [](cmd = "generate" =>
            /\ \A e \in StageExceptions : LoopHandler(e) \in Handlers
            /\ pc # "propagate"
            /\ exitCode \in {-1, 0}
            /\ pc = "exhausted" => (retries = max_retries /\ exitCode = 0))
    /\ [][(cmd = "generate" /\ failedStage' # failedStage) =>
            (pc' \in Handlers /\ retries' = retries /\ exitCode' = -1)]_vars
    /\ [][(cmd = "generate" /\ pc \in Handlers /\ pc' # pc) =>
            (pc' = "loop" /\ retries' = retries + 1 /\ exitCode' = -1)]_vars

C28_Witness ==
    /\ cmd = "generate" /\ pc = "exhausted" /\ exitCode = 0
    /\ failedStage = "post_process" /\ artifacts = {} /\ "job_folder" \in leftovers

\* C29: the loop of the generategpt command hands the generator exactly
\* output_directory and tor_binary_path, every such call runs the generator,
\* and the command calls it again after a normal return and after an
\* AbortScriptError; it ends only when a call that ran raised something else.
C29_CommandKeepsGenerating ==
    cmd = "generategpt" =>
        /\ entered = invocations
        /\ cliPc = "ended" => cliOut \notin {"return", "AbortScriptError"}

\* C30: when an upscale pass handed back the path it was given, the rest of
\* _process_image does not treat that path as a further file: it returns
\* normally and no path is handed to os.remove after it was already deleted.
PassAborted == passes.first = "bg" \/ passes.second = passes.first
C31_ScrapeQualifiedOnly ==
    /\ [](cmd = "scrape" =>
            /\ examined <= ScrapeAttempts
            /\ scrOut = "image" =>
                 /\ StripBlanks(picked.text) # << >>
                 /\ \A w \in ForbiddenWords : ~Contains(LowerStr(picked.text), LowerStr(w))
            /\ scrOut = "None" => picked = NoAsset
            /\ (scrOut = "running" /\ examined = ScrapeAttempts) => picked = NoAsset)
    /\ [][(pc = "scrape" /\ pc' # pc /\ pc' # "chat_start") =>
            (pc' = "abort_handler" /\ failedStage' = "scrape" /\ artifacts' = artifacts)]_vars
    /\ [][(scrOut = "running" /\ examined >= ScrapeAttempts /\ scrOut' # scrOut) =>
            scrOut' = "None"]_vars

C31_Witness ==
    /\ cmd = "scrape" /\ scrOut = "image" /\ examined = ScrapeAttempts
    /\ picked.text = <<" ", "c", "a", "t", " ">>

C33_NoUpscaleWithoutBgImage ==
    (cmd = "generate" /\ bgAttempt = bg_retries) => pc \notin {"upscale_call", "exc_handler"}

\* C34: upscale_bigjpg starts at most 3 turns; the driver of a turn is the
\* only live one during the turn and is quit when the next turn is about to
\* start and when the function has returned; "upscaled" (a path other than
\* the input) is returned only after the image was downloaded; the input path
\* is returned when the image was reported too big and when the third turn
\* ended without a result.
C34_BigjpgTurns ==
    cmd = "bigjpg" =>
        /\ bjRetry <= retry_limit /\ launched <= retry_limit
        /\ bjPc \in {"setup", "returned"} => Live = {}
        /\ bjPc = "attempt" => (Live = {launched} /\ launched = bjRetry)
        /\ bjPc = "returned" => bjResult \in {"image_path", "upscaled"}
        /\ (bjPc = "returned" /\ bjResult = "upscaled") => bjEvent = "downloaded"
        /\ bjEvent \in TooBigEvents => (bjPc = "returned" /\ bjResult = "image_path")
        /\ (bjPc = "returned" /\ bjEvent \notin TooBigEvents \cup {"downloaded"}) =>
               (bjRetry = retry_limit /\ bjResult = "image_path")
        /\ (bjPc = "setup" /\ bjRetry > 0) => bjEvent \notin TooBigEvents \cup {"downloaded"}

C34_Witness ==
    /\ cmd = "bigjpg" /\ bjPc = "returned" /\ bjResult = "upscaled"
    /\ bjRetry = retry_limit /\ quitted = 1..retry_limit

\* C35: whichever dispatchers have run over the store, no archive folder was
\* handed to process_subdir and no archive folder lies inside another one.
C35_ArchivesAreNotWorkItems ==
    cmd = "upload" =>
        /\ \A d \in ArchNames : visits[d] = 0
        /\ \A a \in ArchNames : inside[a] \cap ArchNames = {}
        /\ last.name \notin ArchNames

\* C36: once a stage of the cycle is over without an abort, the registry
\* holds none of the drivers that were quit, and when the cycle has completed
\* the registry is empty.
C36_RegistryFreeOfQuitDrivers ==
    cmd = "generate" =>
        /\ pc = "done" => active_drivers = << >>
        /\ pc \in {"chat_start", "generate", "post_process", "bg_remove", "bg_running",
                   "upscale_call", "done"} => Range(active_drivers) \cap quitted = {}

\* C37: with every collaborator succeeding at its first try, the call of the
\* generator by the command is not refused with TypeError, and the first
\* cycle, having come through scrape, login, the six prompts, the image save
\* and the first background removal with three drivers and no retry, is at
\* the upscale call or complete, not in a handler of the retry loop.
FirstTryUpToUpscale ==
    /\ cycles = 1 /\ retries = 0 /\ login = "in" /\ prompt = NumPrompts /\ bgAttempt = 0
    /\ "job_folder" \in artifacts /\ driver = 1 /\ chatgpt_driver = 2
    /\ launched = 3 /\ quitted = {1, 2, 3}
C37_FirstTryCompletes ==
    /\ (cmd = "generategpt" /\ invocations > 0) => (entered > 0 /\ cliOut # "TypeError")
    /\ (cmd = "generate" /\ FirstTryUpToUpscale) => pc \in {"upscale_call", "done"}

\* C38: no job is handed to _process_image with a title that is empty after
\* clean_string.
C38_NoEmptyTitleCarried ==
    cmd = "job_folder" => \A i \in 1..Len(jobTitles) : jobTitles[i] # << >>

\* C39: the jobs that got as far as _process_image have each a folder of
\* their own.
C39_OneFolderPerJob ==
    cmd = "job_folder" =>
        \A i, j \in 1..Len(jobFolders) : i # j => jobFolders[i] # jobFolders[j]

\* C40: a process_subdir call ends by returning True or False (the exit of
\* the process on the daily limit apart); no exception leaves it, and when it
\* returned False the folder is in the error archive.
C40_ProcessSubdirNeverRaises ==
    (cmd = "upload" /\ last # NoCall) =>
        /\ last.ret \in {"True", "False", "SystemExit"}
        /\ last.ret = "False" => last.dest = "error"

====
